---- MODULE Spec2Model ----
(***************************************************************************)
(* Student Result Management API (src/main.py, src/schemas.py).            *)
(*                                                                         *)
(* Numbers.  marks is a float in the source; here a marks value is the     *)
(* integer number of 1/MarksScale marks, so 899 with MarksScale = 10 is    *)
(* 89.9 marks.  Grade points are the integers 0, 5 .. 10 (0.0, 5.0 ..      *)
(* 10.0).  Credits are whole credit hours.  A GPA is an integer number of  *)
(* hundredths (880 is 8.8).                                                *)
(*                                                                         *)
(* Identifiers.  An ObjectId of a collection is a positive integer, the    *)
(* n-th identifier the store issued for that collection (identifiers of    *)
(* different collections are never compared by the program).  An           *)
(* identifier STRING is what crosses the HTTP boundary: <<n, "lower">> is  *)
(* str(ObjectId n), 24 lower-case hex digits; <<n, "upper">> is the same   *)
(* 24 digits written in upper case, which ObjectId() parses to the same    *)
(* ObjectId; Malformed is a string ObjectId() rejects.                     *)
(***************************************************************************)
EXTENDS Integers, Sequences, FiniteSets, TLC

VARIABLES
  student,      \* db["student"]: the set of student documents
  course,       \* db["course"]: the set of course documents
  result,       \* db["result"]: the result documents, in insertion order
  issued,       \* per collection, how many identifiers the store has issued
  handler,      \* per request handler: where it is in its request
  last,         \* the response the last step sent, NoResponse when it sent none
  recorded,     \* history: what every successful create_result call returned
  memo,         \* history: the last transcript sent since the last write
  gradeIn,      \* the argument of the grade calculation under test
  gradeOut      \* its return value, NotRun before the call

vars == <<student, course, result, issued, handler, last, recorded, memo,
          gradeIn, gradeOut>>

store == <<student, course, result>>

\* ------------------------------------------------------------------ bounds
MarksScale == 10
MaxResults == 2

\* The identifiers the store can issue to students and to courses before it
\* is full: one student and two courses.
StudentObjectIds == {1}
CourseObjectIds == {1, 2}

Handlers == {"h1", "h2"}
CreditValues == {0, 2, 3}
RollNumbers == {"R1"}
CourseCodes == {"MATH101"}
MarksInputs == {-1 * MarksScale, 65 * MarksScale, 95 * MarksScale}
ApiMarksInputs == {65 * MarksScale, 101 * MarksScale}
GradeInputs == (-1 * MarksScale) .. (101 * MarksScale)

Malformed == <<0, "malformed">>
NoFilter == <<0, "none">>
NoResponse == [op |-> "none"]
NotRun == <<"not run">>
NoMemo == [student_id |-> NoFilter, repeated |-> FALSE]

Spellings == {"lower", "upper"}
\* The identifier strings requests carry: either spelling of a student's, the
\* canonical spelling of a course's, and a malformed one.
StudentIdInputs == {<<n, f>> : n \in StudentObjectIds, f \in Spellings} \cup {Malformed}
CourseIdInputs == {<<n, "lower">> : n \in CourseObjectIds} \cup {Malformed}

\* ------------------------------------------------------- pure functions
\* str(ObjectId): 24 lower-case hex digits.
ObjectIdStr(oid) == <<oid, "lower">>

\* ObjectId(id_str) succeeds: 24 hex digits of either case.
IsObjectIdString(id_str) == id_str[2] \in Spellings

\* to_object_id on a string ObjectId() accepts: the case of the digits is lost.
to_object_id(id_str) == id_str[1]

\* calculate_grade with the bands' lower bounds exclusive.
calculate_grade_strict(marks) ==
  IF marks > 90 * MarksScale THEN <<"A+", 10>>
  ELSE IF marks > 80 * MarksScale THEN <<"A", 9>>
  ELSE IF marks > 70 * MarksScale THEN <<"B", 8>>
  ELSE IF marks > 60 * MarksScale THEN <<"C", 7>>
  ELSE IF marks > 50 * MarksScale THEN <<"D", 6>>
  ELSE IF marks > 40 * MarksScale THEN <<"E", 5>>
  ELSE <<"F", 0>>

calculate_grade(marks) ==
  IF marks >= 90 * MarksScale THEN <<"A+", 10>>
  ELSE IF marks >= 80 * MarksScale THEN <<"A", 9>>
  ELSE IF marks >= 70 * MarksScale THEN <<"B", 8>>
  ELSE IF marks >= 60 * MarksScale THEN <<"C", 7>>
  ELSE IF marks >= 50 * MarksScale THEN <<"D", 6>>
  ELSE IF marks >= 40 * MarksScale THEN <<"E", 5>>
  ELSE <<"F", 0>>

\* The schema's constraint without its upper bound.
ResultMarksNoUpper(marks) == marks >= 0

\* Result(...): the schema's constraint on marks, ge=0 and le=100.
ResultMarksValid(marks) == marks >= 0 /\ marks <= 100 * MarksScale

\* round(total_points / total_credits, 2) in hundredths.  Python rounds the
\* double to the nearest hundredth and an exact tie to the even one; a quotient
\* of integers with a denominator below 40 is an exact tie only at an odd
\* multiple of 1/8, which a double holds exactly.
Round2(total_points, total_credits) ==
  LET n == 100 * total_points
      f == n \div total_credits
      r == n % total_credits
  IN  IF 2 * r < total_credits THEN f
      ELSE IF 2 * r > total_credits THEN f + 1
      ELSE IF f % 2 = 0 THEN f ELSE f + 1

\* --------------------------------------------------------------- the store
\* insert(collection, document) -> id: the store issues the next identifier.
NewObjectId(collection) == issued[collection] + 1

\* get_documents("result", filt): equality match on student_id, or match all.
get_documents_result(filt) ==
  IF filt = NoFilter THEN result
  ELSE SelectSeq(result, LAMBDA d : d.student_id = filt)

\* db[collection].count_documents({"_id": oid})
count_documents(collection, oid) == Cardinality({d \in collection : d._id = oid})

\* What an in-flight transcript and the transcript memo learn of a write.
AfterWrite(hs) ==
  [h \in DOMAIN hs |->
     IF hs[h].pc = "aggregate" THEN [hs[h] EXCEPT !.clean = FALSE] ELSE hs[h]]

Idle == [pc |-> "idle"]

Resp(op, req, status, detail, body) ==
  [op |-> op, req |-> req, status |-> status, detail |-> detail, body |-> body]

NoBody == <<>>

\* Requests in flight that will still insert a result.
Inserting == {h \in DOMAIN handler : handler[h].pc \in {"check_course", "insert"}}

\* ------------------------------------------------------ students, courses
create_student(roll) ==
  /\ NewObjectId("student") \in StudentObjectIds
  /\ LET oid == NewObjectId("student") IN
       /\ student' = student \cup {[_id |-> oid, roll_number |-> roll]}
       /\ issued' = [issued EXCEPT !["student"] = oid]
       /\ last' = Resp("create_student", roll, 200, "", [id |-> ObjectIdStr(oid)])
  /\ handler' = AfterWrite(handler)
  /\ memo' = NoMemo
  /\ UNCHANGED <<course, result, recorded, gradeIn, gradeOut>>

list_students ==
  /\ last' = Resp("list_students", NoFilter, 200, "",
                  {[d EXCEPT !._id = ObjectIdStr(d._id)] : d \in student})
  /\ memo' = NoMemo
  /\ UNCHANGED <<student, course, result, issued, handler, recorded, gradeIn, gradeOut>>

create_course(code, credits) ==
  /\ NewObjectId("course") \in CourseObjectIds
  /\ LET oid == NewObjectId("course") IN
       /\ course' = course \cup {[_id |-> oid, code |-> code, credits |-> credits]}
       /\ issued' = [issued EXCEPT !["course"] = oid]
       /\ last' = Resp("create_course", <<code, credits>>, 200, "",
                       [id |-> ObjectIdStr(oid)])
  /\ handler' = AfterWrite(handler)
  /\ memo' = NoMemo
  /\ UNCHANGED <<student, result, recorded, gradeIn, gradeOut>>

list_courses ==
  /\ last' = Resp("list_courses", NoFilter, 200, "",
                  {[d EXCEPT !._id = ObjectIdStr(d._id)] : d \in course})
  /\ memo' = NoMemo
  /\ UNCHANGED <<student, course, result, issued, handler, recorded, gradeIn, gradeOut>>

\* ------------------------------------------------------------ create_result
\* The request arrives and the student is looked up.
CreateResultCheckStudent(h, student_id, course_id, marks) ==
  LET req == [student_id |-> student_id, course_id |-> course_id, marks |-> marks]
  IN
  /\ handler[h].pc = "idle"
  /\ Len(result) + Cardinality(Inserting) < MaxResults
  /\ IF ~IsObjectIdString(student_id)
       THEN /\ last' = Resp("create_result", req, 400, "Invalid id format", NoBody)
            /\ handler' = handler
     ELSE IF count_documents(student, to_object_id(student_id)) = 0
       THEN /\ last' = Resp("create_result", req, 404, "Student not found", NoBody)
            /\ handler' = handler
     ELSE /\ last' = NoResponse
          /\ handler' = [handler EXCEPT ![h] = [pc |-> "check_course", req |-> req]]
  /\ memo' = NoMemo
  /\ UNCHANGED <<student, course, result, issued, recorded, gradeIn, gradeOut>>

\* The course is looked up.
CreateResultCheckCourse(h) ==
  /\ handler[h].pc = "check_course"
  /\ LET req == handler[h].req IN
       IF ~IsObjectIdString(req.course_id)
         THEN /\ last' = Resp("create_result", req, 400, "Invalid id format", NoBody)
              /\ handler' = [handler EXCEPT ![h] = Idle]
       ELSE IF count_documents(course, to_object_id(req.course_id)) = 0
         THEN /\ last' = Resp("create_result", req, 404, "Course not found", NoBody)
              /\ handler' = [handler EXCEPT ![h] = Idle]
       ELSE /\ last' = NoResponse
            /\ handler' = [handler EXCEPT ![h] = [pc |-> "insert", req |-> req]]
  /\ memo' = NoMemo
  /\ UNCHANGED <<student, course, result, issued, recorded, gradeIn, gradeOut>>

\* create_result inserting the document before its marks are checked.
CreateResultInsertUnchecked(h) ==
  /\ handler[h].pc = "insert"
  /\ LET req == handler[h].req
         g == calculate_grade(req.marks)
         oid == NewObjectId("result")
     IN
       /\ result' = Append(result,
            [_id |-> oid, student_id |-> req.student_id,
             course_id |-> req.course_id, marks |-> req.marks,
             grade |-> g[1], grade_point |-> g[2]])
       /\ issued' = [issued EXCEPT !["result"] = oid]
       /\ IF ~ResultMarksValid(req.marks)
            THEN /\ last' = Resp("create_result", req, 500, "ValidationError: marks", NoBody)
                 /\ recorded' = recorded
            ELSE /\ last' = Resp("create_result", req, 200, "",
                              [id |-> ObjectIdStr(oid), grade |-> g[1],
                               grade_point |-> g[2]])
                 /\ recorded' = recorded \cup
                      {[req |-> req, id |-> ObjectIdStr(oid), grade |-> g[1],
                        grade_point |-> g[2]]}
       /\ handler' = AfterWrite([handler EXCEPT ![h] = Idle])
  /\ memo' = NoMemo
  /\ UNCHANGED <<student, course, gradeIn, gradeOut>>

\* The grade is computed, the Result document is built (its schema checks the
\* marks) and inserted.
CreateResultInsert(h) ==
  /\ handler[h].pc = "insert"
  /\ LET req == handler[h].req
         g == calculate_grade(req.marks)
         oid == NewObjectId("result")
     IN
       IF ~ResultMarksValid(req.marks)
         THEN /\ last' = Resp("create_result", req, 500, "ValidationError: marks", NoBody)
              /\ handler' = [handler EXCEPT ![h] = Idle]
              /\ UNCHANGED <<result, issued, recorded>>
       ELSE /\ result' = Append(result,
                 [_id |-> oid, student_id |-> req.student_id,
                  course_id |-> req.course_id, marks |-> req.marks,
                  grade |-> g[1], grade_point |-> g[2]])
            /\ issued' = [issued EXCEPT !["result"] = oid]
            /\ last' = Resp("create_result", req, 200, "",
                            [id |-> ObjectIdStr(oid), grade |-> g[1], grade_point |-> g[2]])
            /\ recorded' = recorded \cup
                 {[req |-> req, id |-> ObjectIdStr(oid), grade |-> g[1],
                   grade_point |-> g[2]]}
            /\ handler' = AfterWrite([handler EXCEPT ![h] = Idle])
  /\ memo' = NoMemo
  /\ UNCHANGED <<student, course, gradeIn, gradeOut>>

\* list_results filtering on _id instead of student_id: no _id, an ObjectId,
\* equals the string.
list_results_by_id(student_id) ==
  /\ last' = Resp("list_results", student_id, 200, "",
                  IF student_id = NoFilter
                    THEN [i \in 1..Len(result) |->
                            [result[i] EXCEPT !._id = ObjectIdStr(result[i]._id)]]
                    ELSE <<>>)
  /\ memo' = NoMemo
  /\ UNCHANGED <<student, course, result, issued, handler, recorded, gradeIn, gradeOut>>

list_results(student_id) ==
  /\ last' = Resp("list_results", student_id, 200, "",
                  [i \in 1..Len(get_documents_result(student_id)) |->
                     [get_documents_result(student_id)[i] EXCEPT
                        !._id = ObjectIdStr(get_documents_result(student_id)[i]._id)]])
  /\ memo' = NoMemo
  /\ UNCHANGED <<student, course, result, issued, handler, recorded, gradeIn, gradeOut>>

\* ----------------------------------------------------------- get_transcript
\* {"$match": {"student_id": student_id}}: the stored string equals the
\* request's string.
Match(docs, student_id) == SelectSeq(docs, LAMBDA d : d.student_id = student_id)

\* The join keeping a result whose course is missing ($unwind with
\* preserveNullAndEmptyArrays), its course fields defaulted.
RECURSIVE LookupUnwindKeep(_)
LookupUnwindKeep(docs) ==
  IF docs = <<>> THEN <<>>
  ELSE LET r == Head(docs)
           found == {c \in course : c._id = to_object_id(r.course_id)}
       IN  <<[r |-> r,
              course |-> IF found = {} THEN [_id |-> 0, code |-> "none", credits |-> 0]
                         ELSE CHOOSE c \in found : TRUE]>>
           \o LookupUnwindKeep(Tail(docs))

\* $addFields courseObjId = $toObjectId(course_id), $lookup from course on
\* _id, $unwind: one record per looked-up course, none when there is none.
\* _id is unique in a collection, so a lookup finds at most one course.
RECURSIVE LookupUnwind(_)
LookupUnwind(docs) ==
  IF docs = <<>> THEN <<>>
  ELSE LET r == Head(docs)
           courseObjId == to_object_id(r.course_id)
           found == {c \in course : c._id = courseObjId}
       IN  (IF found = {} THEN <<>>
            ELSE <<[r |-> r, course |-> CHOOSE c \in found : TRUE]>>)
           \o LookupUnwind(Tail(docs))

Pipeline(student_id) == LookupUnwind(Match(result, student_id))

TranscriptItem(rec) ==
  [course_code |-> rec.course.code, credits |-> rec.course.credits,
   marks |-> rec.r.marks, grade |-> rec.r.grade, grade_point |-> rec.r.grade_point]

\* The loop adding the grade points without their credits.
RECURSIVE AccumulateUnweighted(_, _)
AccumulateUnweighted(records, acc) ==
  IF records = <<>> THEN acc
  ELSE LET rec == Head(records)
       IN  AccumulateUnweighted(Tail(records),
                                <<acc[1] + rec.r.grade_point, acc[2] + rec.course.credits,
                                  Append(acc[3], TranscriptItem(rec))>>)

\* The loop over the records: <<total_points, total_credits, transcript_items>>.
RECURSIVE Accumulate(_, _)
Accumulate(records, acc) ==
  IF records = <<>> THEN acc
  ELSE LET rec == Head(records)
           credits == rec.course.credits
           gp == rec.r.grade_point
       IN  Accumulate(Tail(records),
                      <<acc[1] + gp * credits, acc[2] + credits,
                        Append(acc[3], TranscriptItem(rec))>>)

Gpa(total_points, total_credits) ==
  IF total_credits > 0 THEN Round2(total_points, total_credits) ELSE 0

\* History: the transcript response `resp` of a call that no write overlapped
\* (clean) is remembered, and a later one for the same request is marked as a
\* repetition of it.
Remember(resp, clean) ==
  IF ~clean THEN NoMemo
  ELSE IF memo.student_id = resp.req THEN [memo EXCEPT !.repeated = TRUE]
  ELSE [student_id |-> resp.req, status |-> resp.status, body |-> resp.body,
        repeated |-> FALSE]

\* get_transcript answering an unknown student with an empty transcript.
GetTranscriptDefault(h, student_id) ==
  /\ handler[h].pc = "idle"
  /\ IF ~IsObjectIdString(student_id)
       THEN /\ last' = Resp("get_transcript", student_id, 400, "Invalid id format", NoBody)
            /\ memo' = Remember(last', TRUE)
            /\ handler' = handler
     ELSE IF \A d \in student : d._id # to_object_id(student_id)
       THEN /\ last' = Resp("get_transcript", student_id, 200, "",
                            [student |-> [id |-> student_id, roll_number |-> "none"],
                             gpa |-> 0, results |-> <<>>])
            /\ memo' = Remember(last', TRUE)
            /\ handler' = handler
     ELSE /\ last' = NoResponse
          /\ memo' = memo
          /\ handler' = [handler EXCEPT ![h] =
               [pc |-> "aggregate", student_id |-> student_id, clean |-> TRUE,
                student |-> CHOOSE d \in student : d._id = to_object_id(student_id)]]
  /\ UNCHANGED <<student, course, result, issued, recorded, gradeIn, gradeOut>>

\* The request arrives and the student is fetched.
GetTranscriptFindStudent(h, student_id) ==
  /\ handler[h].pc = "idle"
  /\ IF ~IsObjectIdString(student_id)
       THEN /\ last' = Resp("get_transcript", student_id, 400, "Invalid id format", NoBody)
            /\ memo' = Remember(last', TRUE)
            /\ handler' = handler
     ELSE IF \A d \in student : d._id # to_object_id(student_id)
       THEN /\ last' = Resp("get_transcript", student_id, 404, "Student not found", NoBody)
            /\ memo' = Remember(last', TRUE)
            /\ handler' = handler
     ELSE /\ last' = NoResponse
          /\ memo' = memo
          /\ handler' = [handler EXCEPT ![h] =
               [pc |-> "aggregate", student_id |-> student_id, clean |-> TRUE,
                student |-> CHOOSE d \in student : d._id = to_object_id(student_id)]]
  /\ UNCHANGED <<student, course, result, issued, recorded, gradeIn, gradeOut>>

\* get_transcript saving the student document whose _id it turned into a
\* string: no lookup by ObjectId finds the document again.
GetTranscriptSaving(h) ==
  /\ handler[h].pc = "aggregate"
  /\ LET student_id == handler[h].student_id
         doc == handler[h].student
         acc == Accumulate(Pipeline(student_id), <<0, 0, <<>>>>)
         body == [student |-> [id |-> ObjectIdStr(doc._id),
                               roll_number |-> doc.roll_number],
                  gpa |-> Gpa(acc[1], acc[2]),
                  results |-> acc[3]]
     IN
       /\ last' = Resp("get_transcript", student_id, 200, "", body)
       /\ memo' = Remember(last', handler[h].clean)
       /\ student' = student \ {doc}
  /\ handler' = [handler EXCEPT ![h] = Idle]
  /\ UNCHANGED <<course, result, issued, recorded, gradeIn, gradeOut>>

\* The results are aggregated with their courses and the transcript is sent.
GetTranscriptAggregate(h) ==
  /\ handler[h].pc = "aggregate"
  /\ LET student_id == handler[h].student_id
         doc == handler[h].student
         acc == Accumulate(Pipeline(student_id), <<0, 0, <<>>>>)
         body == [student |-> [id |-> ObjectIdStr(doc._id),
                               roll_number |-> doc.roll_number],
                  gpa |-> Gpa(acc[1], acc[2]),
                  results |-> acc[3]]
     IN
       /\ last' = Resp("get_transcript", student_id, 200, "", body)
       /\ memo' = Remember(last', handler[h].clean)
  /\ handler' = [handler EXCEPT ![h] = Idle]
  /\ UNCHANGED <<student, course, result, issued, recorded, gradeIn, gradeOut>>

\* ------------------------------------------------------ the database viewer
\* Documents are also edited directly in the database, outside this API.
ViewerDeleteStudent(d) ==
  /\ d \in student
  /\ student' = student \ {d}
  /\ handler' = AfterWrite(handler)
  /\ memo' = NoMemo
  /\ last' = NoResponse
  /\ UNCHANGED <<course, result, issued, recorded, gradeIn, gradeOut>>

ViewerDeleteCourse(d) ==
  /\ d \in course
  /\ course' = course \ {d}
  /\ handler' = AfterWrite(handler)
  /\ memo' = NoMemo
  /\ last' = NoResponse
  /\ UNCHANGED <<student, result, issued, recorded, gradeIn, gradeOut>>

\* -------------------------------------------------------- grade calculation
GradeCall ==
  /\ gradeOut = NotRun
  /\ gradeOut' = calculate_grade(gradeIn)
  /\ UNCHANGED <<student, course, result, issued, handler, last, recorded, memo,
                 gradeIn>>

\* ------------------------------------------------------------ specifications
InitStore ==
  /\ student = {}
  /\ course = {}
  /\ result = <<>>
  /\ issued = [c \in {"student", "course", "result"} |-> 0]
  /\ handler = [h \in Handlers |-> Idle]
  /\ last = NoResponse
  /\ recorded = {}
  /\ memo = NoMemo

Init ==
  /\ InitStore
  /\ gradeIn = 0
  /\ gradeOut = NotRun

Request(h, marksInputs) ==
  \/ \E sid \in StudentIdInputs, cid \in CourseIdInputs, m \in marksInputs :
       CreateResultCheckStudent(h, sid, cid, m)
  \/ CreateResultCheckCourse(h)
  \/ CreateResultInsert(h)
  \/ \E sid \in StudentIdInputs : GetTranscriptFindStudent(h, sid)
  \/ GetTranscriptAggregate(h)

Single ==
  \/ \E roll \in RollNumbers : create_student(roll)
  \/ list_students
  \/ \E code \in CourseCodes, credits \in CreditValues : create_course(code, credits)
  \/ list_courses
  \/ \E sid \in StudentIdInputs \cup {NoFilter} : list_results(sid)

Viewer ==
  \/ \E d \in student : ViewerDeleteStudent(d)
  \/ \E d \in course : ViewerDeleteCourse(d)

\* One request at a time, and the database viewer.
Next == Request("h1", MarksInputs) \/ Single \/ Viewer

Spec == Init /\ [][Next]_vars

\* Concurrent requests through the API alone.
NextApi == (\E h \in Handlers : Request(h, ApiMarksInputs)) \/ Single

SpecApi == Init /\ [][NextApi]_vars

\* The grade calculation on its own.
InitGrade ==
  /\ InitStore
  /\ gradeIn \in GradeInputs
  /\ gradeOut = NotRun

SpecGrade == InitGrade /\ [][GradeCall]_vars

\* ================================================================== claims
\* The grade table of the specification: <<inclusive lower bound, grade, point>>.
GradeBands ==
  {<<90, "A+", 10>>, <<80, "A", 9>>, <<70, "B", 8>>, <<60, "C", 7>>,
   <<50, "D", 6>>, <<40, "E", 5>>}

\* The band with the highest lower bound not above the marks, F when there is none.
IsBandOf(pair, marks) ==
  LET reached == {b \in GradeBands : b[1] * MarksScale <= marks} IN
    IF reached = {} THEN pair = <<"F", 0>>
    ELSE \E b \in reached : /\ \A c \in reached : c[1] <= b[1]
                            /\ pair = <<b[2], b[3]>>

RECURSIVE SumPoints(_)
SumPoints(items) ==
  IF items = <<>> THEN 0
  ELSE Head(items).grade_point * Head(items).credits + SumPoints(Tail(items))

RECURSIVE SumCredits(_)
SumCredits(items) ==
  IF items = <<>> THEN 0 ELSE Head(items).credits + SumCredits(Tail(items))

\* gpa (in hundredths) is the weighted mean of the items to the nearest
\* hundredth, and 0 when the credits sum to 0.
IsGpaOf(gpa, items) ==
  LET tp == SumPoints(items)
      tc == SumCredits(items)
      d == 100 * tp - gpa * tc
  IN  IF tc = 0 THEN gpa = 0
      ELSE 2 * d <= tc /\ -2 * d <= tc

TranscriptSent == last.op = "get_transcript" /\ last.status = 200

\* C1: for marks m in [0, 100], calculate_grade(m) is the pair of the highest
\* band whose inclusive lower bound is at most m, and (F, 0.0) below 40.
C1_GradeBands ==
  (gradeOut # NotRun /\ gradeIn >= 0 /\ gradeIn <= 100 * MarksScale)
    => IsBandOf(gradeOut, gradeIn)

\* C1's case: marks just below 90 were graded A, 9.0.
C1_Witness ==
  gradeOut = <<"A", 9>> /\ gradeIn = 90 * MarksScale - 1

\* C2: the GPA of a transcript is the credit-weighted mean of the grade points
\* of exactly its line items, rounded to 2 decimal places, and 0.0 when the
\* credits sum to 0.
C2_GpaOfItems ==
  TranscriptSent => IsGpaOf(last.body.gpa, last.body.results)

\* C2's case: results (marks 95, credits 3) and (marks 65, credits 2) gave 8.8.
C2_Witness ==
  /\ TranscriptSent
  /\ Len(last.body.results) = 2
  /\ \E i, j \in 1..2 :
       /\ last.body.results[i].marks = 95 * MarksScale
       /\ last.body.results[i].credits = 3
       /\ last.body.results[j].marks = 65 * MarksScale
       /\ last.body.results[j].credits = 2
  /\ last.body.gpa = 880

\* What a create_result request's student and course references resolve to.
StudentOf(req) ==
  IF IsObjectIdString(req.student_id)
    THEN {d \in student : d._id = to_object_id(req.student_id)} ELSE {}

CourseOf(req) ==
  IF IsObjectIdString(req.course_id)
    THEN {d \in course : d._id = to_object_id(req.course_id)} ELSE {}

\* C3: a failing create_result reports the first failing check in the order
\* marks in [0, 100], student exists, course exists: marks outside [0, 100] is a
\* validation error even when the student or course is missing, and with valid
\* marks a missing student is reported before a missing course.
C3_MarksCheckedFirst ==
  (last.op = "create_result" /\ last.status # 200) =>
    /\ ~ResultMarksValid(last.req.marks) => last.status # 404
    /\ (/\ ResultMarksValid(last.req.marks)
        /\ IsObjectIdString(last.req.student_id)
        /\ IsObjectIdString(last.req.course_id)
        /\ StudentOf(last.req) = {}
        /\ CourseOf(last.req) = {})
         => last.detail = "Student not found"

\* A step of a create_result request: it sends a create_result response or
\* moves its handler on to the next check.
CreateResultStep ==
  \/ last'.op = "create_result"
  \/ \E h \in Handlers : /\ handler'[h] # handler[h]
                        /\ handler'[h].pc \in {"check_course", "insert"}

\* C4: no step of a create_result request that fails or is still checking
\* writes to a collection, and the step of a successful one appends exactly one
\* result document and changes nothing else.
C4_RejectedBeforeWrite ==
  [][CreateResultStep =>
       IF last'.op = "create_result" /\ last'.status = 200
         THEN /\ student' = student
              /\ course' = course
              /\ Len(result') = Len(result) + 1
              /\ SubSeq(result', 1, Len(result)) = result
         ELSE store' = store]_vars

\* C4's case: a request with marks above 100 was rejected after both lookups,
\* with one result already stored.
C4_Witness ==
  /\ last.op = "create_result"
  /\ last.status = 500
  /\ Len(result) = 1

\* C5: every list_results response, unfiltered or filtered by the student
\* identifier a successful create_result was called with, holds a result with
\* the identifier, marks, grade and grade point that call returned, the grade
\* and point being those of the grade table for the marks.
C5_RecordedThenListed ==
  last.op = "list_results" =>
    \A r \in recorded :
      (last.req = NoFilter \/ last.req = r.req.student_id) =>
        \E i \in 1..Len(last.body) :
          /\ last.body[i]._id = r.id
          /\ last.body[i].marks = r.req.marks
          /\ last.body[i].grade = r.grade
          /\ last.body[i].grade_point = r.grade_point
          /\ IsBandOf(<<r.grade, r.grade_point>>, r.req.marks)

\* C5's case: results were listed for the student of two recorded results.
C5_Witness ==
  /\ last.op = "list_results"
  /\ last.req # NoFilter
  /\ Cardinality({r \in recorded : r.req.student_id = last.req}) = 2

\* C6: a transcript request with a well-formed identifier fails with "Student
\* not found" exactly when no student has that identifier at the lookup, which
\* comes first: the aggregation starts only for an existing student, a
\* transcript is sent only after it, and a student without results gets a
\* transcript with GPA 0.0 and no items.
C6_StudentCheckedFirst ==
  [][/\ (last'.op = "get_transcript" /\ last'.status = 404) =>
          /\ IsObjectIdString(last'.req)
          /\ \A d \in student : d._id # to_object_id(last'.req)
     /\ (last'.op = "get_transcript" /\ last'.status = 400) =>
          ~IsObjectIdString(last'.req)
     /\ \A h \in Handlers :
          (handler[h].pc = "idle" /\ handler'[h].pc = "aggregate") =>
            /\ IsObjectIdString(handler'[h].student_id)
            /\ handler'[h].student \in student
            /\ handler'[h].student._id = to_object_id(handler'[h].student_id)
     /\ (last'.op = "get_transcript" /\ last'.status = 200) =>
          /\ \E h \in Handlers :
               /\ handler[h].pc = "aggregate"
               /\ handler'[h].pc = "idle"
               /\ handler[h].student_id = last'.req
               /\ last'.body.student.id = ObjectIdStr(handler[h].student._id)
          /\ (\A i \in 1..Len(result) : result[i].student_id # last'.req) =>
               (last'.body.gpa = 0 /\ last'.body.results = <<>>)]_vars

\* C6's case: a transcript was refused for a student who is gone although a
\* result still carries the identifier.
C6_Witness ==
  /\ last.op = "get_transcript"
  /\ last.status = 404
  /\ \E i \in 1..Len(result) : result[i].student_id = last.req

\* The line items of the inner join: the results of the student identifier,
\* in stored order, whose course is in the course collection.
JoinedItems(student_id) ==
  LET joined == SelectSeq(result,
                  LAMBDA r : /\ r.student_id = student_id
                             /\ \E c \in course : c._id = to_object_id(r.course_id))
  IN  [i \in 1..Len(joined) |->
         LET c == CHOOSE c \in course : c._id = to_object_id(joined[i].course_id) IN
           [course_code |-> c.code, credits |-> c.credits,
            marks |-> joined[i].marks, grade |-> joined[i].grade,
            grade_point |-> joined[i].grade_point]]

\* C7: a transcript's line items are exactly those of the stored results whose
\* student reference equals the request's and whose course exists; a result
\* whose course is absent is left out of the items and of the GPA.
C7_InnerJoin ==
  TranscriptSent =>
    /\ last.body.results = JoinedItems(last.req)
    /\ IsGpaOf(last.body.gpa, JoinedItems(last.req))

\* C7's case: a transcript left out a result whose course is gone and kept one
\* whose course exists.
C7_Witness ==
  /\ TranscriptSent
  /\ Len(last.body.results) = 1
  /\ \E i \in 1..Len(result) :
       /\ result[i].student_id = last.req
       /\ \A c \in course : c._id # to_object_id(result[i].course_id)

\* A step of a get_transcript request.
TranscriptStep ==
  \/ last'.op = "get_transcript"
  \/ \E h \in Handlers : handler[h].pc = "idle" /\ handler'[h].pc = "aggregate"

\* C8: no step of a get_transcript request, failing or not, changes a
\* collection, and a transcript response that repeats a request with no write
\* since the earlier response's request began is identical to that response.
C8_ReadOnlyIdempotent ==
  [][/\ TranscriptStep => store' = store
     /\ (memo'.repeated /\ last'.op = "get_transcript") =>
          /\ last'.req = memo'.student_id
          /\ last'.status = memo'.status
          /\ last'.body = memo'.body]_vars

\* C8's case: a transcript with a line item was sent a second time.
C8_Witness ==
  /\ memo.repeated
  /\ TranscriptSent
  /\ Len(last.body.results) >= 1

\* Two successful create_result calls for the same student and the same course.
SameStudentAndCourse(r1, r2) ==
  /\ r1 # r2
  /\ to_object_id(r1.req.student_id) = to_object_id(r2.req.student_id)
  /\ to_object_id(r1.req.course_id) = to_object_id(r2.req.course_id)

\* C9: two create_result calls for the same existing student and course with
\* valid marks, interleaved in any way, both succeed and leave two documents
\* with distinct identifiers, and a later transcript of the student, asked for
\* under the identifier the store issued, counts both.
C9_BothCounted ==
  \A r1, r2 \in recorded :
    SameStudentAndCourse(r1, r2) =>
      /\ r1.id # r2.id
      /\ \E i, j \in 1..Len(result) :
           /\ i # j
           /\ ObjectIdStr(result[i]._id) = r1.id
           /\ result[i].marks = r1.req.marks
           /\ ObjectIdStr(result[j]._id) = r2.id
           /\ result[j].marks = r2.req.marks
      /\ (/\ TranscriptSent
          /\ last.req = ObjectIdStr(to_object_id(r1.req.student_id)))
           => Len(last.body.results) >= 2

\* Every stored result is within range, graded per the grade table and refers
\* to an existing student and an existing course.
ResultsWellFormed ==
  \A i \in 1..Len(result) :
    LET r == result[i] IN
      /\ r.marks >= 0 /\ r.marks <= 100 * MarksScale
      /\ r.grade_point >= 0 /\ r.grade_point <= 10
      /\ IsBandOf(<<r.grade, r.grade_point>>, r.marks)
      /\ IsObjectIdString(r.student_id)
      /\ \E d \in student : d._id = to_object_id(r.student_id)
      /\ IsObjectIdString(r.course_id)
      /\ \E c \in course : c._id = to_object_id(r.course_id)

\* Every stored result is, field for field, what its create_result call
\* stored and returned, and nothing else is stored.
ResultsAsRecorded ==
  /\ Len(result) = Cardinality(recorded)
  /\ \A r \in recorded :
       \E i \in 1..Len(result) :
         result[i] = [_id |-> to_object_id(r.id), student_id |-> r.req.student_id,
                      course_id |-> r.req.course_id, marks |-> r.req.marks,
                      grade |-> r.grade, grade_point |-> r.grade_point]

\* C10: under the API's operations alone, interleaved in any way, every stored
\* result has marks in [0, 100], a grade point in [0, 10], the grade and point
\* of the grade table for its marks, and student and course references that
\* resolve; and a stored result keeps the fields it was created with.
C10_ResultsWellFormedForever == ResultsWellFormed /\ ResultsAsRecorded

\* C10's case: two results are stored, one under the upper-case spelling of
\* its student's identifier.
C10_Witness ==
  /\ Len(result) = 2
  /\ \E i \in 1..2 : result[i].student_id[2] = "upper"

====
